---- MODULE Spec2Model ----
(***************************************************************************)
(* Portfolio ledger of the PSX portfolio tracker: the ledger operations of *)
(* services/portfolioService.ts, driven through the usePortfolio hook and  *)
(* the refresh handlers of App.tsx.                                        *)
(*                                                                         *)
(* JavaScript objects and arrays have identity: holdings live in the heap  *)
(* `objs`, transaction arrays in the heap `arrs`, and a ledger is a        *)
(* sequence of references into `objs`.  A spread copy {...h} allocates a   *)
(* new holding that still points at the SAME transaction array.            *)
(*                                                                         *)
(* Numbers are exact rationals <<numerator, denominator>> in lowest terms  *)
(* (the code uses IEEE doubles; rounding is not modelled).                 *)
(***************************************************************************)
EXTENDS Integers, Sequences, FiniteSets, TLC

\* ------------------------------------------------------------------------
\* Bounds of the model
\* ------------------------------------------------------------------------
MaxSteps == 5          \* number of user/ provider events in one run
MaxPending == 1        \* refreshes in flight at the same time
MaxLines == 3          \* lines of a text given to parseBulkAddInput
MaxHoldings == 2       \* holdings of a ledger given to the dashboard figures
MaxDays == 3           \* calendar days the clock runs over
MaxClears == 1         \* times the portfolio is cleared in one run

\* ------------------------------------------------------------------------
\* JavaScript values
\* ------------------------------------------------------------------------
\* undefined where a string is expected, undefined where a number is expected
Undef == "undefined"
NoNum == <<>>
\* NaN: the one number that is not a ratio
NaN == <<0, 0>>

RECURSIVE Gcd(_, _)
Gcd(a, b) == IF b = 0 THEN a ELSE Gcd(b, a % b)

Abs(n) == IF n < 0 THEN -n ELSE n

\* a rational in lowest terms, denominator positive
Norm(n, d) ==
  LET g == Gcd(Abs(n), Abs(d))
      s == IF d < 0 THEN -1 ELSE 1
  IN  <<(s * n) \div g, (s * d) \div g>>

R(n) == <<n, 1>>
Lcm(a, b) == (a \div Gcd(a, b)) * b
RAdd(x, y) ==
  LET l == Lcm(x[2], y[2])
  IN  Norm(x[1] * (l \div x[2]) + y[1] * (l \div y[2]), l)
RNeg(x) == <<-x[1], x[2]>>
RSub(x, y) == RAdd(x, RNeg(y))
RMul(x, y) ==
  LET g1 == Gcd(Abs(x[1]), y[2])
      g2 == Gcd(Abs(y[1]), x[2])
      h1 == IF g1 = 0 THEN 1 ELSE g1
      h2 == IF g2 = 0 THEN 1 ELSE g2
  IN  Norm((x[1] \div h1) * (y[1] \div h2), (x[2] \div h2) * (y[2] \div h1))
\* x / y for y # 0
RDiv(x, y) == RMul(x, Norm(y[2], y[1]))
RLeq(x, y) ==
  LET l == Lcm(x[2], y[2])
  IN  x[1] * (l \div x[2]) <= y[1] * (l \div y[2])
RLt(x, y) == RLeq(x, y) /\ x # y
RGt(x, y) == RLt(y, x)

\* the literal 0.0001 of sellHolding
Epsilon == <<1, 10000>>

\* JavaScript truthiness of a string-or-undefined
FalsyStr(v) == v \in {Undef, ""}
\* a || b on strings
OrElse(a, b) == IF FalsyStr(a) THEN b ELSE a

\* ------------------------------------------------------------------------
\* Text conversions, by table over the tokens the model uses
\* ------------------------------------------------------------------------
\* parseFloat of a token; a missing token (undefined) and a non-numeral give NaN
ParseFloat(s) ==
  CASE s = "100" -> R(100)
    [] s = "60" -> R(60)
    [] s = "40" -> R(40)
    [] s = "150" -> R(150)
    [] s = "200" -> R(200)
    [] s = "0" -> R(0)
    [] s = "99.9999" -> Norm(999999, 10000)
    [] s = "-5" -> R(-5)
    [] s = "100abc" -> R(100)
    [] OTHER -> NaN

\* mutant of ToUpperCase: the ticker is used as typed
ToUpperCaseSkipped(s) == s

\* String.prototype.toUpperCase on the ticker tokens
ToUpperCase(s) ==
  CASE s = "mebl" -> "MEBL"
    [] s = "hbl" -> "HBL"
    [] OTHER -> s

\* new Date().toISOString().split('T')[0]
Today == "2024-06-01"

\* the i-th element of a destructured array (undefined when absent)
Tok(line, i) == IF i <= Len(line) THEN line[i] ELSE Undef

\* ------------------------------------------------------------------------
\* Heap: st = [objs, arrs, next]
\*   objs : reference -> holding object, arrs : reference -> transaction array
\*   next : the next unused reference (also the source of crypto.randomUUID)
\* ------------------------------------------------------------------------
EmptyStore == [objs |-> <<>>, arrs |-> <<>>, next |-> 1]

\* index of the first holding of `refs` with ticker t, 0 when there is none
\* (Array.prototype.find / Map.prototype.has on a sequence of references)
FindTicker(objs, refs, t) ==
  IF \E i \in 1..Len(refs) : objs[refs[i]].ticker = t
  THEN CHOOSE i \in 1..Len(refs) :
         /\ objs[refs[i]].ticker = t
         /\ \A j \in 1..(i - 1) : objs[refs[j]].ticker # t
  ELSE 0

\* the ledger as a value: every reference followed
DeepHolding(objs, arrs, ref) ==
  [objs[ref] EXCEPT !.transactions = arrs[objs[ref].transactions]]
Deep(objs, arrs, refs) ==
  [i \in 1..Len(refs) |-> DeepHolding(objs, arrs, refs[i])]

\* Map.prototype.set on an insertion-ordered map kept as a sequence of
\* references with distinct tickers: an existing key keeps its position
MapSet(objs, map, t, ref) ==
  LET i == FindTicker(objs, map, t)
  IN  IF i = 0 THEN Append(map, ref) ELSE [map EXCEPT ![i] = ref]

\* new Map(refs.map(h => [h.ticker, ref]))
RECURSIVE MapOf(_, _, _)
MapOf(objs, refs, i) ==
  IF i = 0 THEN <<>>
  ELSE MapSet(objs, MapOf(objs, refs, i - 1), objs[refs[i]].ticker, refs[i])

\* ------------------------------------------------------------------------
\* services/portfolioService.ts
\* ------------------------------------------------------------------------
\* A text is a sequence of lines, a line the sequence of its whitespace-
\* separated tokens (a blank line is the empty sequence).

\* mutant of InvalidLine: the sign of the price is not tested
InvalidLineAnyPrice(ticker, quantity, price) ==
  \/ FalsyStr(ticker)
  \/ quantity = NaN
  \/ price = NaN
  \/ RLeq(quantity, R(0))

\* the test of line 21
InvalidLine(ticker, quantity, price) ==
  \/ FalsyStr(ticker)
  \/ quantity = NaN
  \/ price = NaN
  \/ RLeq(quantity, R(0))
  \/ RLeq(price, R(0))

\* one iteration of lines.forEach: ps = [st, map]
ParseLine(ps, line) ==
  LET st == ps.st
      ticker == Tok(line, 1)
      quantity == ParseFloat(Tok(line, 2))
      price == ParseFloat(Tok(line, 3))
      dateStr == Tok(line, 4)
      date == IF FalsyStr(dateStr) THEN Today ELSE dateStr
      transaction == [id |-> st.next, date |-> date, type |-> "BUY",
                      quantity |-> quantity, price |-> price,
                      cost |-> RMul(quantity, price)]
      key == ToUpperCase(ticker)
      i == FindTicker(st.objs, ps.map, key)
  IN  IF line = <<>> THEN ps
      ELSE IF InvalidLine(ticker, quantity, price) THEN ps
      ELSE IF i # 0
      THEN LET a == st.objs[ps.map[i]].transactions
           IN  [ps EXCEPT !.st.arrs[a] = Append(@, transaction),
                          !.st.next = st.next + 1]
      ELSE LET a == st.next + 1
               o == st.next + 2
               h == [ticker |-> key, companyName |-> "", quantity |-> R(0),
                     averageBuyPrice |-> R(0), totalInvestment |-> R(0),
                     transactions |-> a, sector |-> Undef,
                     currentPrice |-> NoNum, dayChangeValue |-> NoNum,
                     overview |-> Undef, dataSource |-> Undef]
           IN  [st |-> [objs |-> (o :> h) @@ st.objs,
                        arrs |-> (a :> <<transaction>>) @@ st.arrs,
                        next |-> st.next + 3],
                map |-> Append(ps.map, o)]

RECURSIVE ParseLines(_, _, _)
ParseLines(st, text, i) ==
  IF i = 0 THEN [st |-> st, map |-> <<>>]
  ELSE ParseLine(ParseLines(st, text, i - 1), text[i])

\* sum of the quantity (cost) of the BUY transactions of txs[1..i]
RECURSIVE SumBuyQuantity(_, _)
SumBuyQuantity(txs, i) ==
  IF i = 0 THEN R(0)
  ELSE IF txs[i].type = "BUY"
       THEN RAdd(SumBuyQuantity(txs, i - 1), txs[i].quantity)
       ELSE SumBuyQuantity(txs, i - 1)
RECURSIVE SumBuyCost(_, _)
SumBuyCost(txs, i) ==
  IF i = 0 THEN R(0)
  ELSE IF txs[i].type = "BUY"
       THEN RAdd(SumBuyCost(txs, i - 1), txs[i].cost)
       ELSE SumBuyCost(txs, i - 1)
\* mutant of SumSellQuantity: sells are left out of the aggregate, as in
\* the loop of parseBulkAddInput
SumSellQuantityIgnored(txs, i) == R(0)

RECURSIVE SumSellQuantity(_, _)
SumSellQuantity(txs, i) ==
  IF i = 0 THEN R(0)
  ELSE IF txs[i].type = "SELL"
       THEN RAdd(SumSellQuantity(txs, i - 1), txs[i].quantity)
       ELSE SumSellQuantity(txs, i - 1)

\* totalQuantity > 0 ? totalCost / totalQuantity : 0
AveragePrice(totalCost, totalQuantity) ==
  IF RGt(totalQuantity, R(0)) THEN RDiv(totalCost, totalQuantity) ELSE R(0)

\* Array.from(holdingsMap.values()).map(holding => ({...holding, ...})):
\* every entry of the map is copied into a new object that keeps the array
RECURSIVE ParseFinish(_, _, _)
ParseFinish(st, map, i) ==
  IF i = 0 THEN [st |-> st, out |-> <<>>]
  ELSE LET r == ParseFinish(st, map, i - 1)
           holding == r.st.objs[map[i]]
           txs == r.st.arrs[holding.transactions]
           totalQuantity == SumBuyQuantity(txs, Len(txs))
           totalCost == SumBuyCost(txs, Len(txs))
           o == r.st.next
           copy == [holding EXCEPT
                      !.quantity = totalQuantity,
                      !.totalInvestment = totalCost,
                      !.averageBuyPrice = AveragePrice(totalCost, totalQuantity)]
       IN  [st |-> [r.st EXCEPT !.objs = (o :> copy) @@ @, !.next = o + 1],
            out |-> Append(r.out, o)]

\* parseBulkAddInput(text): the references of the holdings it returns
parseBulkAddInput(st, text) ==
  LET ps == ParseLines(st, text, Len(text))
  IN  ParseFinish(ps.st, ps.map, Len(ps.map))

\* currentHoldings.map(h => ({ ...h })): one new object per element, each
\* still pointing at the transaction array of the object it copies
RECURSIVE CopyAll(_, _, _)
CopyAll(st, refs, i) ==
  IF i = 0 THEN [st |-> st, out |-> <<>>]
  ELSE LET r == CopyAll(st, refs, i - 1)
           o == r.st.next
       IN  [st |-> [r.st EXCEPT !.objs = (o :> r.st.objs[refs[i]]) @@ @,
                                !.next = o + 1],
            out |-> Append(r.out, o)]

\* mutant of Refreshed: the refresh also copies the payload's overview
RefreshedWithOverview(existing, newHolding) ==
  [existing EXCEPT
     !.currentPrice = newHolding.currentPrice,
     !.dayChangeValue = newHolding.dayChangeValue,
     !.companyName = OrElse(newHolding.companyName, existing.companyName),
     !.sector = OrElse(newHolding.sector, existing.sector),
     !.overview = newHolding.overview]

\* the four assignments of a data refresh, lines 86-89
Refreshed(existing, newHolding) ==
  [existing EXCEPT
     !.currentPrice = newHolding.currentPrice,
     !.dayChangeValue = newHolding.dayChangeValue,
     !.companyName = OrElse(newHolding.companyName, existing.companyName),
     !.sector = OrElse(newHolding.sector, existing.sector)]

\* mutant of AddOne: the incoming holding is always added as a new entry
AddOneAlwaysInsert(as, new, isUpdate) ==
  [as EXCEPT !.map = Append(as.map, new)]

\* the body of newHoldings.forEach, lines 82-111: as == [st, map]
AddOne(as, new, isUpdate) ==
  LET st == as.st
      newHolding == st.objs[new]
      i == FindTicker(st.objs, as.map, newHolding.ticker)
  IN  IF i # 0
      THEN LET e == as.map[i]
               existing == st.objs[e]
           IN  IF isUpdate
               THEN [as EXCEPT !.st.objs[e] = Refreshed(existing, newHolding)]
               ELSE LET a == st.next
                        txs == st.arrs[existing.transactions] \o
                               st.arrs[newHolding.transactions]
                        totalQuantity == RSub(SumBuyQuantity(txs, Len(txs)),
                                              SumSellQuantity(txs, Len(txs)))
                        totalCost == SumBuyCost(txs, Len(txs))
                    IN  [as EXCEPT
                           !.st.arrs = (a :> txs) @@ @,
                           !.st.next = a + 1,
                           !.st.objs[e] =
                             [existing EXCEPT
                                !.transactions = a,
                                !.quantity = totalQuantity,
                                !.totalInvestment = totalCost,
                                !.averageBuyPrice = AveragePrice(totalCost, totalQuantity)]]
      ELSE [as EXCEPT !.map = Append(as.map, new)]

RECURSIVE AddEach(_, _, _, _)
AddEach(as, newHoldings, isUpdate, i) ==
  IF i = 0 THEN as
  ELSE AddOne(AddEach(as, newHoldings, isUpdate, i - 1), newHoldings[i], isUpdate)

\* mutant of addHoldings: the isUpdate flag is not passed on, every call
\* merges transactions as a purchase does
addHoldingsAsPurchase(st, currentHoldings, newHoldings, isUpdate) ==
  LET c == CopyAll(st, currentHoldings, Len(currentHoldings))
      holdingsMap == MapOf(c.st.objs, c.out, Len(c.out))
      r == AddEach([st |-> c.st, map |-> holdingsMap], newHoldings, FALSE,
                   Len(newHoldings))
  IN  [st |-> r.st, out |-> r.map]

\* addHoldings(currentHoldings, newHoldings, isUpdate)
addHoldings(st, currentHoldings, newHoldings, isUpdate) ==
  LET c == CopyAll(st, currentHoldings, Len(currentHoldings))
      holdingsMap == MapOf(c.st.objs, c.out, Len(c.out))
      r == AddEach([st |-> c.st, map |-> holdingsMap], newHoldings, isUpdate,
                   Len(newHoldings))
  IN  [st |-> r.st, out |-> r.map]

\* mutant of CannotSell: the quantity is not compared with the quantity held
CannotSellAbsentOnly(st, currentHoldings, ticker, quantity) ==
  FindTicker(st.objs, currentHoldings, ticker) = 0

\* !holdingToSell || quantity > holdingToSell.quantity, line 127
CannotSell(st, currentHoldings, ticker, quantity) ==
  LET i == FindTicker(st.objs, currentHoldings, ticker)
  IN  i = 0 \/ RGt(quantity, st.objs[currentHoldings[i]].quantity)

\* mutant of Exhausted: the holding is removed at exactly zero or below
ExhaustedAtZero(quantity) == RLeq(quantity, R(0))

\* holdingToSell.quantity <= 0.0001, line 144
Exhausted(quantity) == RLeq(quantity, Epsilon)

\* mutant of Sold: the sale also takes its proceeds off the investment
SoldOffInvestment(holdingToSell, quantity, price) ==
  [holdingToSell EXCEPT
     !.quantity = RSub(@, quantity),
     !.totalInvestment = RSub(@, RMul(quantity, price))]

\* holdingToSell.quantity -= quantity, line 142: the only field a sale writes
Sold(holdingToSell, quantity, price) ==
  [holdingToSell EXCEPT !.quantity = RSub(@, quantity)]

\* sellHolding(currentHoldings, ticker, quantity, price)
sellHolding(st, currentHoldings, ticker, quantity, price) ==
  LET i == FindTicker(st.objs, currentHoldings, ticker)
  IN  IF CannotSell(st, currentHoldings, ticker, quantity)
      THEN [st |-> st, out |-> currentHoldings]
      ELSE LET o == currentHoldings[i]
               holdingToSell == st.objs[o]
               transaction == [id |-> st.next, date |-> Today, type |-> "SELL",
                               quantity |-> quantity, price |-> price,
                               cost |-> RMul(quantity, price)]
               st2 == [st EXCEPT
                         !.arrs[holdingToSell.transactions] = Append(@, transaction),
                         !.objs[o] = Sold(holdingToSell, quantity, price),
                         !.next = st.next + 1]
           IN  IF Exhausted(st2.objs[o].quantity)
               THEN [st |-> st2,
                     out |-> SelectSeq(currentHoldings,
                                       LAMBDA r : st2.objs[r].ticker # ticker)]
               ELSE [st |-> st2, out |-> currentHoldings]

\* mutant of addDividend: the dividend is also taken off the investment
addDividendOffInvestment(st, currentHoldings, ticker, amount, date) ==
  LET i == FindTicker(st.objs, currentHoldings, ticker)
  IN  IF i = 0
      THEN [st |-> st, out |-> currentHoldings]
      ELSE LET holding == st.objs[currentHoldings[i]]
               transaction == [id |-> st.next, date |-> date, type |-> "DIVIDEND",
                               amount |-> amount]
           IN  [st |-> [st EXCEPT
                          !.arrs[holding.transactions] = Append(@, transaction),
                          !.objs[currentHoldings[i]].totalInvestment = RSub(@, amount),
                          !.next = st.next + 1],
                out |-> currentHoldings]

\* addDividend(currentHoldings, ticker, amount, date)
addDividend(st, currentHoldings, ticker, amount, date) ==
  LET i == FindTicker(st.objs, currentHoldings, ticker)
  IN  IF i = 0
      THEN [st |-> st, out |-> currentHoldings]
      ELSE LET holding == st.objs[currentHoldings[i]]
               transaction == [id |-> st.next, date |-> date, type |-> "DIVIDEND",
                               amount |-> amount]
           IN  [st |-> [st EXCEPT
                          !.arrs[holding.transactions] = Append(@, transaction),
                          !.next = st.next + 1],
                out |-> currentHoldings]

\* mutant of updateHolding: the synthetic transaction is appended to the
\* history instead of replacing it
updateHoldingAppending(st, currentHoldings, ticker, totalQuantity, averagePrice) ==
  LET c == CopyAll(st, currentHoldings, Len(currentHoldings))
      holdingsCopy == c.out
      i == FindTicker(c.st.objs, holdingsCopy, ticker)
  IN  IF i = 0
      THEN [st |-> c.st, out |-> currentHoldings]
      ELSE LET o == holdingsCopy[i]
               a == c.st.next + 1
               syntheticTransaction ==
                 [id |-> c.st.next, date |-> Today, type |-> "BUY",
                  quantity |-> totalQuantity, price |-> averagePrice,
                  cost |-> RMul(totalQuantity, averagePrice)]
           IN  [st |-> [c.st EXCEPT
                          !.arrs = (a :> Append(c.st.arrs[c.st.objs[o].transactions],
                                                syntheticTransaction)) @@ @,
                          !.objs[o] = [@ EXCEPT
                             !.transactions = a,
                             !.quantity = totalQuantity,
                             !.averageBuyPrice = averagePrice,
                             !.totalInvestment = RMul(totalQuantity, averagePrice)],
                          !.next = c.st.next + 2],
                out |-> holdingsCopy]

\* updateHolding(currentHoldings, ticker, totalQuantity, averagePrice)
updateHolding(st, currentHoldings, ticker, totalQuantity, averagePrice) ==
  LET c == CopyAll(st, currentHoldings, Len(currentHoldings))
      holdingsCopy == c.out
      i == FindTicker(c.st.objs, holdingsCopy, ticker)
  IN  IF i = 0
      THEN [st |-> c.st, out |-> currentHoldings]
      ELSE LET o == holdingsCopy[i]
               a == c.st.next + 1
               syntheticTransaction ==
                 [id |-> c.st.next, date |-> Today, type |-> "BUY",
                  quantity |-> totalQuantity, price |-> averagePrice,
                  cost |-> RMul(totalQuantity, averagePrice)]
           IN  [st |-> [c.st EXCEPT
                          !.arrs = (a :> <<syntheticTransaction>>) @@ @,
                          !.objs[o] = [@ EXCEPT
                             !.transactions = a,
                             !.quantity = totalQuantity,
                             !.averageBuyPrice = averagePrice,
                             !.totalInvestment = RMul(totalQuantity, averagePrice)],
                          !.next = c.st.next + 2],
                out |-> holdingsCopy]

\* ------------------------------------------------------------------------
\* App.tsx: building the refresh payload
\* ------------------------------------------------------------------------
\* data.map(liveData => ...).filter(h => h !== null) of updateHoldingsWithNewData,
\* over the holdings array the callback closed over
RECURSIVE UpdatedHoldings(_, _, _, _)
UpdatedHoldings(st, closure, data, i) ==
  IF i = 0 THEN [st |-> st, out |-> <<>>]
  ELSE LET r == UpdatedHoldings(st, closure, data, i - 1)
           liveData == data[i]
           k == FindTicker(r.st.objs, closure, liveData.ticker)
       IN  IF k = 0 THEN r
           ELSE LET existingHolding == r.st.objs[closure[k]]
                    o == r.st.next
                    h == [existingHolding EXCEPT
                            !.companyName = OrElse(liveData.companyName, existingHolding.companyName),
                            !.currentPrice = liveData.price,
                            !.dayChangeValue = liveData.change,
                            !.sector = OrElse(liveData.sector, existingHolding.sector),
                            !.overview = OrElse(liveData.overview, existingHolding.overview)]
                IN  [st |-> [r.st EXCEPT !.objs = (o :> h) @@ @, !.next = o + 1],
                     out |-> Append(r.out, o)]

\* results.forEach of handleRefreshWithScraper: the successfulData array.
\* results[i] is "rejected" or the scraped record of tickers[i]
RECURSIVE SuccessfulData(_, _)
SuccessfulData(results, i) ==
  IF i = 0 THEN <<>>
  ELSE LET rest == SuccessfulData(results, i - 1)
           result == results[i]
       IN  IF result.status = "fulfilled" /\ ParseFloat(result.value.price) # NaN
           THEN Append(rest, [ticker |-> result.value.ticker,
                              companyName |-> result.value.companyName,
                              price |-> ParseFloat(result.value.price),
                              change |-> ParseFloat(result.value.change),
                              sector |-> Undef,
                              overview |-> result.value.overview])
           ELSE rest

\* mutant of FailedTickers: only the rejected requests are reported
RECURSIVE FailedTickersRejectedOnly(_, _, _)
FailedTickersRejectedOnly(tickers, results, i) ==
  IF i = 0 THEN <<>>
  ELSE LET rest == FailedTickersRejectedOnly(tickers, results, i - 1)
       IN  IF results[i].status = "fulfilled" THEN rest
           ELSE Append(rest, tickers[i])

\* results.forEach of handleRefreshWithScraper: the failed array
RECURSIVE FailedTickers(_, _, _)
FailedTickers(tickers, results, i) ==
  IF i = 0 THEN <<>>
  ELSE LET rest == FailedTickers(tickers, results, i - 1)
           result == results[i]
       IN  IF result.status = "fulfilled" /\ ParseFloat(result.value.price) # NaN
           THEN rest
           ELSE Append(rest, tickers[i])

\* ------------------------------------------------------------------------
\* State
\* ------------------------------------------------------------------------
VARIABLES
  store,      \* the heap [objs, arrs, next]
  portfolio,  \* usePortfolio state: [holdings, history, lastRefreshed]
  pending,    \* refreshes awaiting their provider: [tickers, closure]
  isLoading,  \* App state
  last,       \* the last ledger call: its arguments, input and result, by value
  steps,      \* events so far
  scrapeFailedTickers,  \* App state: the tickers the scraper failed for
  run         \* a pure function under test: its input and, once applied, its result

vars == <<store, portfolio, pending, isLoading, last, steps, scrapeFailedTickers, run>>
appVars == <<store, portfolio, pending, isLoading, last, steps, scrapeFailedTickers>>

\* no pure function under test
Idle == [fn |-> "none"]

\* new Date().toISOString()
NowISO == "2024-06-01T09:00:00.000Z"

\* inputs of the model
Tickers == {"MEBL", "HBL"}
AppTexts ==
  { << <<"MEBL", "100", "150", "2024-01-01">> >>,
    << <<"hbl", "40", "200">>, <<"BAD", "LINE">> >> }
SellQuantities == {R(40), R(100), Norm(999999, 10000)}
SellPrices == {R(200)}
UpdateQuantities == {R(0), R(60)}
UpdatePrices == {R(150)}
DividendAmounts == {R(5)}
DividendDates == {"2024-03-01"}
\* what the scraper can answer for a ticker
ScrapeResults(t) ==
  { [status |-> "rejected"],
    [status |-> "fulfilled",
     value |-> [ticker |-> t, companyName |-> "Meezan", price |-> "200",
                change |-> "-5", overview |-> "ov"]],
    [status |-> "fulfilled",
     value |-> [ticker |-> t, companyName |-> "N/A", price |-> "abc",
                change |-> "N/A", overview |-> Undef]] }

NoCall == [op |-> "none", ticker |-> Undef, quantity |-> NoNum, price |-> NoNum,
           date |-> Undef, payload |-> <<>>, before |-> <<>>, inputAfter |-> <<>>, after |-> <<>>,
           tickers |-> <<>>, results |-> <<>>]

\* the references reachable from the state: what a garbage collector keeps
Live(st, pf, pd) ==
  LET roots == {pf.holdings[i] : i \in 1..Len(pf.holdings)} \cup
               UNION {{p.closure[i] : i \in 1..Len(p.closure)} : p \in pd}
      as == {st.objs[o].transactions : o \in roots}
  IN  [objs |-> [o \in roots |-> st.objs[o]],
       arrs |-> [a \in as |-> st.arrs[a]],
       next |-> st.next]

Init ==
  /\ store = EmptyStore
  /\ portfolio = [holdings |-> <<>>, history |-> <<>>, lastRefreshed |-> Undef]
  /\ pending = {}
  /\ isLoading = FALSE
  /\ last = NoCall
  /\ steps = 0
  /\ scrapeFailedTickers = <<>>
  /\ run = Idle

\* the record of one ledger call: r is the call's result on store st
Call(op, t, q, p, payload, st, input, r) ==
  [op |-> op, ticker |-> t, quantity |-> q, price |-> p, date |-> Undef,
   payload |-> payload,
   before |-> Deep(st.objs, st.arrs, input),
   inputAfter |-> Deep(r.st.objs, r.st.arrs, input),
   after |-> Deep(r.st.objs, r.st.arrs, r.out),
   tickers |-> <<>>, results |-> <<>>]

\* AddStockModal.handleBulkSubmit -> usePortfolio.addHoldings(newHoldings)
AddStock(text) ==
  LET parsed == parseBulkAddInput(store, text)
      r == addHoldings(parsed.st, portfolio.holdings, parsed.out, FALSE)
  IN  /\ steps < MaxSteps
      /\ Len(parsed.out) > 0
      /\ portfolio' = [portfolio EXCEPT !.holdings = r.out]
      /\ store' = Live(r.st, portfolio', pending)
      /\ last' = Call("add", Undef, NoNum, NoNum,
                      Deep(parsed.st.objs, parsed.st.arrs, parsed.out),
                      parsed.st, portfolio.holdings, r)
      /\ steps' = steps + 1
      /\ UNCHANGED <<pending, isLoading, scrapeFailedTickers, run>>

\* usePortfolio.sellHolding
Sell(t, q, p) ==
  LET r == sellHolding(store, portfolio.holdings, t, q, p)
  IN  /\ steps < MaxSteps
      /\ portfolio' = [portfolio EXCEPT !.holdings = r.out]
      /\ store' = Live(r.st, portfolio', pending)
      /\ last' = Call("sell", t, q, p, <<>>, store, portfolio.holdings, r)
      /\ steps' = steps + 1
      /\ UNCHANGED <<pending, isLoading, scrapeFailedTickers, run>>

\* usePortfolio.addDividend
Dividend(t, amount, date) ==
  LET r == addDividend(store, portfolio.holdings, t, amount, date)
  IN  /\ steps < MaxSteps
      /\ portfolio' = [portfolio EXCEPT !.holdings = r.out]
      /\ store' = Live(r.st, portfolio', pending)
      /\ last' = [Call("dividend", t, amount, NoNum, <<>>, store, portfolio.holdings, r)
                    EXCEPT !.date = date]
      /\ steps' = steps + 1
      /\ UNCHANGED <<pending, isLoading, scrapeFailedTickers, run>>

\* usePortfolio.updateHolding
Update(t, q, p) ==
  LET r == updateHolding(store, portfolio.holdings, t, q, p)
  IN  /\ steps < MaxSteps
      /\ portfolio' = [portfolio EXCEPT !.holdings = r.out]
      /\ store' = Live(r.st, portfolio', pending)
      /\ last' = Call("update", t, q, p, <<>>, store, portfolio.holdings, r)
      /\ steps' = steps + 1
      /\ UNCHANGED <<pending, isLoading, scrapeFailedTickers, run>>

\* usePortfolio.clearPortfolio, offered while there are holdings
ClearPortfolio ==
  /\ steps < MaxSteps
  /\ Len(portfolio.holdings) > 0
  /\ portfolio' = [holdings |-> <<>>, history |-> <<>>, lastRefreshed |-> Undef]
  /\ store' = Live(store, portfolio', pending)
  /\ last' = NoCall
  /\ steps' = steps + 1
  /\ UNCHANGED <<pending, isLoading, scrapeFailedTickers, run>>

\* handleRefreshAll up to the await of handleRefreshWithScraper: the callback
\* keeps the portfolio.holdings of this render
StartRefresh ==
  /\ steps < MaxSteps
  /\ ~isLoading
  /\ Cardinality(pending) < MaxPending
  /\ Len(portfolio.holdings) > 0
  /\ pending' = pending \cup
       {[tickers |-> [i \in 1..Len(portfolio.holdings) |->
                        store.objs[portfolio.holdings[i]].ticker],
         closure |-> portfolio.holdings]}
  /\ isLoading' = TRUE
  /\ scrapeFailedTickers' = <<>>
  /\ last' = NoCall
  /\ steps' = steps + 1
  /\ UNCHANGED <<store, portfolio, run>>

\* handleRefreshWithScraper after the await, updateHoldingsWithNewData and
\* usePortfolio.addHoldings(updatedHoldings, true)
ResolveRefresh(p, results) ==
  LET successfulData == SuccessfulData(results, Len(results))
      u == UpdatedHoldings(store, p.closure, successfulData, Len(successfulData))
      r == addHoldings(u.st, portfolio.holdings, u.out, TRUE)
      failed == FailedTickers(p.tickers, results, Len(results))
      same == [st |-> store, out |-> portfolio.holdings]
  IN  /\ steps < MaxSteps
      /\ p \in pending
      /\ pending' = pending \ {p}
      /\ isLoading' = FALSE
      /\ scrapeFailedTickers' = IF Len(failed) > 0 THEN failed
                                ELSE scrapeFailedTickers
      /\ steps' = steps + 1
      /\ UNCHANGED run
      /\ IF Len(u.out) > 0
         THEN /\ portfolio' = [portfolio EXCEPT !.holdings = r.out,
                                                !.lastRefreshed = NowISO]
              /\ store' = Live(r.st, portfolio', pending')
              /\ last' = [Call("refresh", Undef, NoNum, NoNum,
                               Deep(u.st.objs, u.st.arrs, u.out),
                               u.st, portfolio.holdings, r)
                            EXCEPT !.tickers = p.tickers, !.results = results]
         ELSE /\ portfolio' = portfolio
              /\ store' = Live(store, portfolio', pending')
              /\ last' = [Call("refreshed nothing", Undef, NoNum, NoNum, <<>>,
                               store, portfolio.holdings, same)
                            EXCEPT !.tickers = p.tickers, !.results = results]

\* every way the scraper can settle the requests of p
ResultsOf(p) ==
  {rs \in [1..Len(p.tickers) -> UNION {ScrapeResults(t) : t \in Tickers}] :
     \A i \in 1..Len(p.tickers) : rs[i] \in ScrapeResults(p.tickers[i])}

Next ==
  \/ \E text \in AppTexts : AddStock(text)
  \/ \E t \in Tickers, q \in SellQuantities, p \in SellPrices : Sell(t, q, p)
  \/ \E t \in Tickers, a \in DividendAmounts, d \in DividendDates : Dividend(t, a, d)
  \/ \E t \in Tickers, q \in UpdateQuantities, p \in UpdatePrices : Update(t, q, p)
  \/ ClearPortfolio
  \/ StartRefresh
  \/ \E p \in pending : \E results \in ResultsOf(p) : ResolveRefresh(p, results)

Spec == Init /\ [][Next]_vars

\* ------------------------------------------------------------------------
\* parseBulkAddInput on its own: every text of at most MaxLines lines
\* ------------------------------------------------------------------------
Lines ==
  { <<"MEBL", "100", "150", "2024-01-01">>,
    <<"mebl", "40", "200">>,
    <<"HBL", "60", "150">>,
    <<"HBL", "100abc", "200">>,
    <<"BAD", "LINE">>,
    <<"HBL", "0", "150">>,
    <<"MEBL", "100", "-5">>,
    <<>> }
Texts == UNION {[1..n -> Lines] : n \in 0..MaxLines}

InitParse ==
  /\ store = EmptyStore
  /\ portfolio = [holdings |-> <<>>, history |-> <<>>, lastRefreshed |-> Undef]
  /\ pending = {}
  /\ isLoading = FALSE
  /\ last = NoCall
  /\ steps = 0
  /\ scrapeFailedTickers = <<>>
  /\ run \in {[fn |-> "parseBulkAddInput", text |-> t, done |-> FALSE, out |-> <<>>] :
                t \in Texts}

\* the call parseBulkAddInput(text), its result by value
ParseText ==
  /\ run.fn = "parseBulkAddInput"
  /\ ~run.done
  /\ LET r == parseBulkAddInput(EmptyStore, run.text)
     IN  run' = [run EXCEPT !.done = TRUE,
                            !.out = Deep(r.st.objs, r.st.arrs, r.out)]
  /\ UNCHANGED appVars

NextParse == ParseText

SpecParse == InitParse /\ [][NextParse]_vars

\* ------------------------------------------------------------------------
\* Dashboard figures: calculatePortfolioMetrics and calculateSectorAllocation
\* ------------------------------------------------------------------------
\* JavaScript truthiness of a number-or-undefined
FalsyNum(v) == v \in {NoNum, NaN, R(0)}
\* a ?? b on numbers
Nullish(a, b) == IF a = NoNum THEN b ELSE a
TickersOf(ledger) == {ledger[i].ticker : i \in 1..Len(ledger)}
\* manualPrices[ticker]: undefined when the map has no such key
Lookup(manualPrices, ticker) ==
  IF ticker \in DOMAIN manualPrices THEN manualPrices[ticker] ELSE NoNum

\* numericManualPrices of App.tsx: the typed texts that parseFloat does not
\* turn into NaN, as numbers (a ticker without entry holds Undef)
numericManualPrices(manualPrices) ==
  [t \in {k \in DOMAIN manualPrices : ParseFloat(manualPrices[k]) # NaN} |->
     ParseFloat(manualPrices[t])]

\* the value of one holding, lines 226-227
HoldingValue(h, manualPrices) ==
  LET price == Nullish(Lookup(manualPrices, h.ticker), h.currentPrice)
  IN  IF FalsyNum(price) THEN h.totalInvestment ELSE RMul(price, h.quantity)
\* line 228
DayChange(h) ==
  IF FalsyNum(h.dayChangeValue) THEN R(0) ELSE RMul(h.dayChangeValue, h.quantity)
\* lines 234-238 over txs[1..i]
RECURSIVE SumDividends(_, _)
SumDividends(txs, i) ==
  IF i = 0 THEN R(0)
  ELSE IF txs[i].type = "DIVIDEND"
       THEN RAdd(SumDividends(txs, i - 1), txs[i].amount)
       ELSE SumDividends(txs, i - 1)

ZeroMetrics ==
  [totalInvestment |-> R(0), currentValue |-> R(0), totalDividends |-> R(0),
   totalGainLoss |-> R(0), totalGainLossPercent |-> R(0),
   dayGainLoss |-> R(0), dayGainLossPercent |-> R(0)]

\* holdings.forEach of lines 225-239 over holdings[1..i]
RECURSIVE MetricsLoop(_, _, _)
MetricsLoop(holdings, manualPrices, i) ==
  IF i = 0 THEN ZeroMetrics
  ELSE LET metrics == MetricsLoop(holdings, manualPrices, i - 1)
           h == holdings[i]
       IN  [metrics EXCEPT
              !.totalInvestment = RAdd(@, h.totalInvestment),
              !.currentValue = RAdd(@, HoldingValue(h, manualPrices)),
              !.dayGainLoss = RAdd(@, DayChange(h)),
              !.totalDividends =
                 RAdd(@, SumDividends(h.transactions, Len(h.transactions)))]

\* mutant of TotalGainLoss: dividends are left out of the gain
TotalGainLossWithoutDividends(metrics) ==
  RSub(metrics.currentValue, metrics.totalInvestment)
\* line 241
TotalGainLoss(metrics) ==
  RAdd(RSub(metrics.currentValue, metrics.totalInvestment), metrics.totalDividends)

\* mutant of PercentOf: the base is only tested for being nonzero
PercentOfNonzero(gain, base) ==
  IF base # R(0) THEN RMul(RDiv(gain, base), R(100)) ELSE R(0)
\* lines 243-245 and 248-250: the percentage stays 0 unless the base is > 0
PercentOf(gain, base) ==
  IF RGt(base, R(0)) THEN RMul(RDiv(gain, base), R(100)) ELSE R(0)

\* calculatePortfolioMetrics(holdings, manualPrices)
calculatePortfolioMetrics(holdings, manualPrices) ==
  LET looped == MetricsLoop(holdings, manualPrices, Len(holdings))
      metrics == [looped EXCEPT !.totalGainLoss = TotalGainLoss(looped)]
      portfolioValueYesterday == RSub(metrics.currentValue, metrics.dayGainLoss)
  IN  [metrics EXCEPT
         !.totalGainLossPercent =
            PercentOf(metrics.totalGainLoss, metrics.totalInvestment),
         !.dayGainLossPercent =
            PercentOf(metrics.dayGainLoss, portfolioValueYesterday)]

\* mutant of SectorOf: the sector is taken as it is stored
SectorOfAsStored(h) == h.sector
\* line 263
SectorOf(h) == OrElse(h.sector, "Uncategorized")
\* lines 264-265
AllocationValue(h, manualPrices) ==
  LET price == Nullish(Nullish(Lookup(manualPrices, h.ticker), h.currentPrice),
                       h.averageBuyPrice)
  IN  RMul(price, h.quantity)

\* index of the entry of sectorMap named sector, 0 when none
SectorIndex(sectorMap, sector) ==
  IF \E i \in 1..Len(sectorMap) : sectorMap[i].name = sector
  THEN CHOOSE i \in 1..Len(sectorMap) : sectorMap[i].name = sector
  ELSE 0

\* holdings.forEach of lines 262-276 over holdings[1..i]: sectorMap in
\* insertion order
RECURSIVE SectorLoop(_, _, _)
SectorLoop(holdings, manualPrices, i) ==
  IF i = 0 THEN <<>>
  ELSE LET before == SectorLoop(holdings, manualPrices, i - 1)
           h == holdings[i]
           sector == SectorOf(h)
           sectorMap ==
             IF SectorIndex(before, sector) = 0
             THEN Append(before, [name |-> sector, currentValue |-> R(0),
                                  investmentValue |-> R(0), holdings |-> <<>>])
             ELSE before
           k == SectorIndex(sectorMap, sector)
       IN  [sectorMap EXCEPT ![k] =
              [@ EXCEPT
                 !.currentValue = RAdd(@, AllocationValue(h, manualPrices)),
                 !.investmentValue = RAdd(@, h.totalInvestment),
                 !.holdings = Append(@, [ticker |-> h.ticker,
                                         quantity |-> h.quantity])]]
\* totalValue of lines 260 and 275 over holdings[1..i]
RECURSIVE TotalValue(_, _, _)
TotalValue(holdings, manualPrices, i) ==
  IF i = 0 THEN R(0)
  ELSE RAdd(TotalValue(holdings, manualPrices, i - 1),
            AllocationValue(holdings[i], manualPrices))

\* mutant of SortByPercentage: the entries stay in insertion order
SortSkipped(entries, i) == entries
\* Array.prototype.sort((a, b) => b.percentage - a.percentage): stable,
\* entries[1..i] by descending percentage
RECURSIVE SortByPercentage(_, _)
SortByPercentage(entries, i) ==
  IF i = 0 THEN <<>>
  ELSE LET sorted == SortByPercentage(entries, i - 1)
           e == entries[i]
           n == Cardinality({j \in 1..Len(sorted) :
                               RLeq(e.percentage, sorted[j].percentage)})
       IN  [j \in 1..(Len(sorted) + 1) |->
              IF j <= n THEN sorted[j]
              ELSE IF j = n + 1 THEN e ELSE sorted[j - 1]]

\* calculateSectorAllocation(holdings, manualPrices)
calculateSectorAllocation(holdings, manualPrices) ==
  LET sectorMap == SectorLoop(holdings, manualPrices, Len(holdings))
      totalValue == TotalValue(holdings, manualPrices, Len(holdings))
      entries == [i \in 1..Len(sectorMap) |->
                    [name |-> sectorMap[i].name,
                     percentage |->
                       RMul(RDiv(sectorMap[i].currentValue, totalValue), R(100)),
                     investmentValue |-> sectorMap[i].investmentValue,
                     holdings |-> sectorMap[i].holdings]]
  IN  IF totalValue = R(0) THEN <<>>
      ELSE SortByPercentage(entries, Len(entries))

\* ------------------------------------------------------------------------
\* The dashboard figures on their own: ledgers of at most MaxHoldings
\* holdings as the ledger operations leave them, with the market data a
\* refresh writes and the override texts the user types
\* ------------------------------------------------------------------------
BoughtText ==
  << <<"MEBL", "100", "150", "2024-01-01">>, <<"HBL", "60", "150">>,
     <<"LUCK", "40", "200">> >>
Bought == parseBulkAddInput(EmptyStore, BoughtText)
WithDividend == addDividend(Bought.st, Bought.out, "MEBL", R(5), "2024-03-01")
Adjusted == updateHolding(Bought.st, Bought.out, "MEBL", R(0), R(150))
\* the i-th holding after the import, after a dividend, after an update to 0
Positions(i) ==
  {Deep(r.st.objs, r.st.arrs, r.out)[i] : r \in {Bought, WithDividend, Adjusted}}
\* never refreshed; refreshed by the scraper; by the AI source with a day
\* change that is not a number; with a price of 0
Quotes ==
  { [currentPrice |-> NoNum, dayChangeValue |-> NoNum, sector |-> Undef],
    [currentPrice |-> R(200), dayChangeValue |-> R(-5), sector |-> Undef],
    [currentPrice |-> R(200), dayChangeValue |-> NaN, sector |-> "Banking"],
    [currentPrice |-> R(0), dayChangeValue |-> R(0), sector |-> "Cement"] }
Quoted(p, q) ==
  [p EXCEPT !.currentPrice = q.currentPrice,
            !.dayChangeValue = q.dayChangeValue,
            !.sector = q.sector]
SampleHoldings(i) == {Quoted(p, q) : p \in Positions(i), q \in Quotes}
SampleLedgers ==
  UNION {{l \in [1..n -> UNION {SampleHoldings(i) : i \in 1..n}] :
            \A i \in 1..n : l[i] \in SampleHoldings(i)} : n \in 0..MaxHoldings}
\* what the override field of a row holds: nothing (Undef), or a typed text
OverrideTexts == {Undef, "", "200", "0", "-5"}
Dashboard == {"calculatePortfolioMetrics", "calculateSectorAllocation"}

InitMetrics ==
  /\ store = EmptyStore
  /\ portfolio = [holdings |-> <<>>, history |-> <<>>, lastRefreshed |-> Undef]
  /\ pending = {}
  /\ isLoading = FALSE
  /\ last = NoCall
  /\ steps = 0
  /\ scrapeFailedTickers = <<>>
  /\ \E f \in Dashboard, l \in SampleLedgers :
       \E m \in [TickersOf(l) -> OverrideTexts] :
         run = [fn |-> f, holdings |-> l, manualPrices |-> m,
                done |-> FALSE, out |-> <<>>]

\* useMemo of App.tsx lines 245-248
ComputeMetrics ==
  /\ run.fn = "calculatePortfolioMetrics"
  /\ ~run.done
  /\ run' = [run EXCEPT
               !.done = TRUE,
               !.out = calculatePortfolioMetrics(
                          run.holdings, numericManualPrices(run.manualPrices))]
  /\ UNCHANGED appVars

\* useMemo of App.tsx lines 250-253
ComputeAllocation ==
  /\ run.fn = "calculateSectorAllocation"
  /\ ~run.done
  /\ run' = [run EXCEPT
               !.done = TRUE,
               !.out = calculateSectorAllocation(
                          run.holdings, numericManualPrices(run.manualPrices))]
  /\ UNCHANGED appVars

NextMetrics == ComputeMetrics \/ ComputeAllocation

SpecMetrics == InitMetrics /\ [][NextMetrics]_vars

\* ------------------------------------------------------------------------
\* usePortfolio: the value history
\* ------------------------------------------------------------------------
\* { holdings: [], history: [] }
EmptyPortfolio == [holdings |-> <<>>, history |-> <<>>, lastRefreshed |-> Undef]
\* An ISO timestamp is <<day, time>>: the calendar day (UTC) as a day number
\* and the time of that day as a tick.
\* iso.split('T')[0]: the date part
DatePart(iso) == iso[1]
\* s.date.startsWith(today)
StartsWith(iso, today) == DatePart(iso) = today
\* the literal of `newHistory.length > 365`
HistoryCap == 365

\* mutant of FindToday: today's entry is never found
FindTodayNever(history, today) == 0
\* newHistory.findIndex(s => s.date.startsWith(today)), 0 for -1
FindToday(history, today) ==
  IF \E i \in 1..Len(history) : StartsWith(history[i].date, today)
  THEN CHOOSE i \in 1..Len(history) :
         /\ StartsWith(history[i].date, today)
         /\ \A j \in 1..(i - 1) : ~StartsWith(history[j].date, today)
  ELSE 0

\* mutant of Capped: the newest entry is dropped instead of the oldest
CappedDroppingNewest(newHistory) ==
  IF Len(newHistory) > HistoryCap
  THEN SubSeq(newHistory, 1, Len(newHistory) - 1)
  ELSE newHistory
\* if (newHistory.length > 365) newHistory.shift()
Capped(newHistory) ==
  IF Len(newHistory) > HistoryCap THEN Tail(newHistory) ELSE newHistory

\* the updater of addPortfolioSnapshot(value), run at the instant now
addPortfolioSnapshot(currentPortfolio, now, value) ==
  LET today == DatePart(now)
      todayIndex == FindToday(currentPortfolio.history, today)
      snapshot == [date |-> now, value |-> value]
      newHistory == IF todayIndex # 0
                    THEN [currentPortfolio.history EXCEPT ![todayIndex] = snapshot]
                    ELSE Append(currentPortfolio.history, snapshot)
  IN  [currentPortfolio EXCEPT !.history = Capped(newHistory)]

\* ------------------------------------------------------------------------
\* addPortfolioSnapshot on its own: calls at non-decreasing instants over
\* MaxDays days, from the empty history or from a history filled up to the cap
\* ------------------------------------------------------------------------
\* a history of n entries, one per day, the last one on the day before day 1
Filled(n) == [i \in 1..n |-> [date |-> <<i - n, 0>>, value |-> R(100)]]
StartHistories == {<<>>, Filled(HistoryCap - 1), Filled(HistoryCap)}
SnapshotValues == {R(100), R(150)}
FirstInstant == <<1, 0>>
\* the instants of the clock: a morning and an evening on each day
LaterInstants(now) ==
  (IF now[2] = 0 THEN {<<now[1], 1>>} ELSE {})
    \cup (IF now[1] < MaxDays THEN {<<now[1] + 1, 0>>} ELSE {})

InitSnapshot ==
  /\ store = EmptyStore
  /\ \E h \in StartHistories :
       /\ portfolio = [holdings |-> <<>>, history |-> h, lastRefreshed |-> Undef]
       /\ run = [fn |-> "addPortfolioSnapshot", now |-> FirstInstant, start |-> h,
                 called |-> FALSE, before |-> <<>>, value |-> NoNum]
  /\ pending = {}
  /\ isLoading = FALSE
  /\ last = NoCall
  /\ steps = 0
  /\ scrapeFailedTickers = <<>>

\* time passes
AdvanceClock ==
  /\ run.fn = "addPortfolioSnapshot"
  /\ \E t \in LaterInstants(run.now) : run' = [run EXCEPT !.now = t, !.called = FALSE]
  /\ UNCHANGED appVars

\* addPortfolioSnapshot(value)
AddSnapshot(value) ==
  /\ run.fn = "addPortfolioSnapshot"
  /\ portfolio' = addPortfolioSnapshot(portfolio, run.now, value)
  /\ run' = [run EXCEPT !.called = TRUE, !.before = portfolio.history,
                        !.value = value]
  /\ UNCHANGED <<store, pending, isLoading, last, steps, scrapeFailedTickers>>

NextSnapshot == AdvanceClock \/ \E v \in SnapshotValues : AddSnapshot(v)

SpecSnapshot == InitSnapshot /\ [][NextSnapshot]_vars

\* ------------------------------------------------------------------------
\* App.tsx: the snapshot effect, with the state it depends on (isLoading,
\* lastRefreshed, the current value, the history) and the clock
\* ------------------------------------------------------------------------
\* new Date().toISOString() as a string (lastRefreshed is only read for
\* being set)
ISOString(now) == ToString(now)

\* mutant of SnapshotDue: the date of the last snapshot is not looked at
SnapshotDueWheneverRefreshed(loading, pf, now) ==
  ~loading /\ ~FalsyStr(pf.lastRefreshed)
\* the two conditions of the effect, lines 256-260
SnapshotDue(loading, pf, now) ==
  /\ ~loading
  /\ ~FalsyStr(pf.lastRefreshed)
  /\ \/ Len(pf.history) = 0
     \/ DatePart(now) # DatePart(pf.history[Len(pf.history)].date)

CurrentValues == {R(100), R(150)}

InitEffect ==
  /\ store = EmptyStore
  /\ portfolio = EmptyPortfolio
  /\ pending = {}
  /\ isLoading = FALSE
  /\ last = NoCall
  /\ steps = 0
  /\ scrapeFailedTickers = <<>>
  /\ run = [fn |-> "snapshotEffect", now |-> FirstInstant, currentValue |-> R(0),
            dirty |-> TRUE, called |-> FALSE, callsToday |-> 0,
            callsSinceClear |-> 0, clears |-> 0]

\* the effect runs after a render in which one of its dependencies changed
SnapshotEffect ==
  /\ run.fn = "snapshotEffect"
  /\ run.dirty
  /\ IF SnapshotDue(isLoading, portfolio, run.now)
     THEN /\ portfolio' = addPortfolioSnapshot(portfolio, run.now, run.currentValue)
          /\ run' = [run EXCEPT !.called = TRUE,
                                !.callsToday = @ + 1,
                                !.callsSinceClear = @ + 1]
     ELSE /\ portfolio' = portfolio
          /\ run' = [run EXCEPT !.dirty = FALSE, !.called = FALSE]
  /\ UNCHANGED <<store, pending, isLoading, last, steps, scrapeFailedTickers>>

\* handleRefreshWithScraper up to its await
BeginRefresh ==
  /\ run.fn = "snapshotEffect"
  /\ ~run.dirty /\ ~isLoading
  /\ isLoading' = TRUE
  /\ run' = [run EXCEPT !.dirty = TRUE, !.called = FALSE]
  /\ UNCHANGED <<store, portfolio, pending, last, steps, scrapeFailedTickers>>

\* handleRefreshWithScraper after its await: with data for a holding
\* (usePortfolio.addHoldings(..., true) stamps lastRefreshed) or without
EndRefresh(updated, value) ==
  /\ run.fn = "snapshotEffect"
  /\ ~run.dirty /\ isLoading
  /\ isLoading' = FALSE
  /\ portfolio' = IF updated
                  THEN [portfolio EXCEPT !.lastRefreshed = ISOString(run.now)]
                  ELSE portfolio
  /\ run' = [run EXCEPT !.dirty = TRUE, !.called = FALSE,
                        !.currentValue = IF updated THEN value ELSE @]
  /\ UNCHANGED <<store, pending, last, steps, scrapeFailedTickers>>

\* a purchase, sell, correction or override: the current value changes
EditLedger(value) ==
  /\ run.fn = "snapshotEffect"
  /\ ~run.dirty
  /\ value # run.currentValue
  /\ run' = [run EXCEPT !.dirty = TRUE, !.called = FALSE, !.currentValue = value]
  /\ UNCHANGED appVars

\* clearPortfolio()
ClearAll ==
  /\ run.fn = "snapshotEffect"
  /\ ~run.dirty
  /\ run.clears < MaxClears
  /\ portfolio' = EmptyPortfolio
  /\ run' = [run EXCEPT !.dirty = TRUE, !.called = FALSE, !.currentValue = R(0),
                        !.callsSinceClear = 0, !.clears = @ + 1]
  /\ UNCHANGED <<store, pending, isLoading, last, steps, scrapeFailedTickers>>

\* time passes; the clock is no dependency of the effect
Tick ==
  /\ run.fn = "snapshotEffect"
  /\ ~run.dirty
  /\ \E t \in LaterInstants(run.now) :
       run' = [run EXCEPT
                 !.now = t, !.called = FALSE,
                 !.callsToday = IF DatePart(t) = DatePart(run.now) THEN @ ELSE 0,
                 !.callsSinceClear = IF DatePart(t) = DatePart(run.now) THEN @ ELSE 0]
  /\ UNCHANGED appVars

NextEffect ==
  \/ SnapshotEffect
  \/ BeginRefresh
  \/ \E updated \in BOOLEAN, value \in CurrentValues : EndRefresh(updated, value)
  \/ \E value \in CurrentValues : EditLedger(value)
  \/ ClearAll
  \/ Tick

SpecEffect == InitEffect /\ [][NextEffect]_vars

\* ------------------------------------------------------------------------
\* usePortfolio: the portfolio in localStorage
\* ------------------------------------------------------------------------
\* null where a number is expected (JSON has no NaN)
NullNum == <<0, 0, 0>>
\* JSON.stringify of a number: NaN is written as null; a property that is
\* undefined is left out of the text and reads as undefined after a parse
JsonNumber(v) == IF v = NaN THEN NullNum ELSE v
JsonHolding(h) ==
  [h EXCEPT !.quantity = JsonNumber(@),
            !.averageBuyPrice = JsonNumber(@),
            !.totalInvestment = JsonNumber(@),
            !.currentPrice = JsonNumber(@),
            !.dayChangeValue = JsonNumber(@)]
JsonArray(items) == [isArray |-> TRUE, items |-> items]
NotArray == [isArray |-> FALSE, items |-> <<>>]
\* localStorage.setItem(KEY, JSON.stringify(portfolio)): the item it leaves
Stringify(p) ==
  [kind |-> "text", parses |-> TRUE, isObject |-> TRUE,
   holdings |-> JsonArray([i \in 1..Len(p.holdings) |-> JsonHolding(p.holdings[i])]),
   history |-> JsonArray([i \in 1..Len(p.history) |->
                           [p.history[i] EXCEPT !.value = JsonNumber(@)]]),
   lastRefreshed |-> p.lastRefreshed]

\* Array.isArray(parsed.history) ? parsed.history : []
HistoryOf(parsed) == IF parsed.history.isArray THEN parsed.history.items ELSE <<>>
\* getInitialState() with the item `stored` in localStorage
getInitialState(stored) ==
  IF stored.kind # "text" THEN EmptyPortfolio          \* getItem gave null or ""
  ELSE IF ~stored.parses THEN EmptyPortfolio           \* JSON.parse threw
  ELSE IF stored.isObject /\ stored.holdings.isArray
       THEN [holdings |-> stored.holdings.items,
             history |-> HistoryOf(stored),
             lastRefreshed |-> stored.lastRefreshed]
       ELSE EmptyPortfolio

\* ------------------------------------------------------------------------
\* Saving and loading on their own: a portfolio in memory, an item (or
\* none) in localStorage
\* ------------------------------------------------------------------------
SampleHistories == {<<>>, <<[date |-> FirstInstant, value |-> R(100)]>>}
SamplePortfolios ==
  {[holdings |-> l, history |-> h, lastRefreshed |-> r] :
     l \in SampleLedgers, h \in SampleHistories, r \in {Undef, NowISO}}
\* what another session or another program may have left under the key
OneHolding == JsonArray(<<JsonHolding(CHOOSE h \in SampleHoldings(1) : TRUE)>>)
ForeignItems ==
  { [kind |-> "absent"],
    [kind |-> "empty"],
    [kind |-> "text", parses |-> FALSE],
    [kind |-> "text", parses |-> TRUE, isObject |-> FALSE],
    [kind |-> "text", parses |-> TRUE, isObject |-> TRUE,
     holdings |-> NotArray, history |-> JsonArray(<<>>), lastRefreshed |-> Undef],
    [kind |-> "text", parses |-> TRUE, isObject |-> TRUE,
     holdings |-> OneHolding, history |-> NotArray, lastRefreshed |-> NowISO] }

InitStorage ==
  /\ store = EmptyStore
  /\ portfolio = EmptyPortfolio
  /\ pending = {}
  /\ isLoading = FALSE
  /\ last = NoCall
  /\ steps = 0
  /\ scrapeFailedTickers = <<>>
  /\ \E p \in SamplePortfolios, item \in ForeignItems :
       run = [fn |-> "getInitialState", memory |-> p, stored |-> item,
              saved |-> FALSE, done |-> FALSE, out |-> EmptyPortfolio]

\* the save effect of usePortfolio, lines 30-36
SavePortfolio ==
  /\ run.fn = "getInitialState"
  /\ ~run.saved /\ ~run.done
  /\ run' = [run EXCEPT !.stored = Stringify(run.memory), !.saved = TRUE]
  /\ UNCHANGED appVars

\* useState(getInitialState) of the next session
LoadPortfolio ==
  /\ run.fn = "getInitialState"
  /\ ~run.done
  /\ run' = [run EXCEPT !.done = TRUE, !.out = getInitialState(run.stored)]
  /\ UNCHANGED appVars

NextStorage == SavePortfolio \/ LoadPortfolio

SpecStorage == InitStorage /\ [][NextStorage]_vars

\* ------------------------------------------------------------------------
\* Properties
\* ------------------------------------------------------------------------
\* the ledger of the current state, by value
Ledger == Deep(store.objs, store.arrs, portfolio.holdings)

\* index of the first holding of a ledger value with ticker t, 0 when none
IndexOf(ledger, t) ==
  IF t \in TickersOf(ledger)
  THEN CHOOSE i \in 1..Len(ledger) :
         ledger[i].ticker = t /\ \A j \in 1..(i - 1) : ledger[j].ticker # t
  ELSE 0
WithoutIds(ledger) ==
  [i \in 1..Len(ledger) |->
     [ledger[i] EXCEPT !.transactions =
        [j \in 1..Len(ledger[i].transactions) |->
           [ledger[i].transactions[j] EXCEPT !.id = 0]]]]

\* the sum of a field over the transactions of one type
RECURSIVE TotalOf(_, _, _)
TotalOf(txs, type, field) ==
  IF txs = <<>> THEN R(0)
  ELSE IF Head(txs).type = type
       THEN RAdd(Head(txs)[field], TotalOf(Tail(txs), type, field))
       ELSE TotalOf(Tail(txs), type, field)

\* C1: every holding's quantity is the sum of the quantities of its BUY
\* transactions minus the sum of the quantities of its SELL transactions.
C1_QuantityIsBuysMinusSells ==
  \A i \in 1..Len(Ledger) :
    LET txs == Ledger[i].transactions
    IN  Ledger[i].quantity =
          RSub(TotalOf(txs, "BUY", "quantity"), TotalOf(txs, "SELL", "quantity"))

\* C2: every holding's averageBuyPrice is totalInvestment / quantity when
\* quantity > 0 and 0 otherwise.
C2_AverageIsInvestmentOverQuantity ==
  \A i \in 1..Len(Ledger) :
    Ledger[i].averageBuyPrice =
      IF RGt(Ledger[i].quantity, R(0))
      THEN RDiv(Ledger[i].totalInvestment, Ledger[i].quantity)
      ELSE R(0)

\* C3: every holding's totalInvestment is the sum of the cost of its BUY
\* transactions, and a sellHolding or addDividend call leaves the
\* totalInvestment of every holding it returns as it was in its input.
C3_InvestmentIsBuyCost ==
  /\ \A i \in 1..Len(Ledger) :
       Ledger[i].totalInvestment = TotalOf(Ledger[i].transactions, "BUY", "cost")
  /\ last.op \in {"sell", "dividend"} =>
       \A i \in 1..Len(last.after) :
         LET k == IndexOf(last.before, last.after[i].ticker)
         IN  /\ k # 0
             /\ last.after[i].totalInvestment = last.before[k].totalInvestment

\* a partial sell has just been applied to a holding with an investment
C3_Witness ==
  /\ last.op = "sell"
  /\ \E i \in 1..Len(last.after) :
       /\ last.after[i].ticker = last.ticker
       /\ RLt(last.after[i].quantity,
              last.before[IndexOf(last.before, last.ticker)].quantity)
       /\ RGt(last.after[i].totalInvestment, R(0))

\* the ledger after importing "MEBL 100 150 2024-01-01" into the empty ledger
ImportedMEBL ==
  LET parsed == parseBulkAddInput(EmptyStore, << <<"MEBL", "100", "150", "2024-01-01">> >>)
      r == addHoldings(parsed.st, <<>>, parsed.out, FALSE)
  IN  Deep(r.st.objs, r.st.arrs, r.out)

\* C4: importing one buy of 100 MEBL at 150 into the empty ledger and then
\* selling 40 at 200 gives a MEBL holding with quantity 60, totalInvestment
\* 15000 and averageBuyPrice 250.
C4_ImportThenSell ==
  ( /\ last.op = "sell"
    /\ last.ticker = "MEBL" /\ last.quantity = R(40) /\ last.price = R(200)
    /\ WithoutIds(last.before) = WithoutIds(ImportedMEBL) )
  => /\ Len(last.after) = 1
     /\ last.after[1].ticker = "MEBL"
     /\ last.after[1].quantity = R(60)
     /\ last.after[1].totalInvestment = R(15000)
     /\ last.after[1].averageBuyPrice = R(250)

\* C5: a ledger call leaves the ledger it was given as it was: the holdings
\* passed in have the same value after the call as before it.
C5_InputLedgerNotModified ==
  last.op # "none" => last.inputAfter = last.before

\* the holding a sellHolding call was aimed at, in the ledger it was given
SoldBefore == last.before[IndexOf(last.before, last.ticker)]
\* the call was accepted: the ticker is held and the quantity is not more
\* than the quantity held
SellAccepted ==
  /\ last.op = "sell"
  /\ last.ticker \in TickersOf(last.before)
  /\ ~RGt(last.quantity, SoldBefore.quantity)

\* C6: an accepted sellHolding that leaves at most 0.0001 returns a ledger
\* without the ticker; one that leaves more returns a ledger where the
\* ticker's quantity is reduced by the sold quantity and exactly one SELL
\* transaction with cost = quantity x price is appended.
C6_SellRemovesOrReduces ==
  SellAccepted =>
    IF RLeq(RSub(SoldBefore.quantity, last.quantity), Epsilon)
    THEN last.ticker \notin TickersOf(last.after)
    ELSE /\ last.ticker \in TickersOf(last.after)
         /\ LET h == last.after[IndexOf(last.after, last.ticker)]
                n == Len(SoldBefore.transactions)
            IN  /\ h.quantity = RSub(SoldBefore.quantity, last.quantity)
                /\ Len(h.transactions) = n + 1
                /\ SubSeq(h.transactions, 1, n) = SoldBefore.transactions
                /\ h.transactions[n + 1].type = "SELL"
                /\ h.transactions[n + 1].quantity = last.quantity
                /\ h.transactions[n + 1].price = last.price
                /\ h.transactions[n + 1].cost = RMul(last.quantity, last.price)

\* a sell that leaves a residue of 0.0001 has removed the holding
C6_Witness ==
  /\ SellAccepted
  /\ RSub(SoldBefore.quantity, last.quantity) = Epsilon
  /\ last.ticker \notin TickersOf(last.after)

\* C7: sellHolding for a ticker that is not held, or for more than the
\* quantity held, returns a ledger equal to the one it was given and leaves
\* that ledger unchanged.
C7_RejectedSellIsNoOp ==
  (last.op = "sell" /\ ~SellAccepted) =>
    /\ last.after = last.before
    /\ last.inputAfter = last.before

\* a sell for more than the quantity held was rejected
C7_Witness ==
  /\ last.op = "sell"
  /\ last.ticker \in TickersOf(last.before)
  /\ RGt(last.quantity, SoldBefore.quantity)
  /\ last.after = last.before

\* the fields a refresh may not touch
Kept(h) ==
  <<h.ticker, h.transactions, h.quantity, h.totalInvestment, h.averageBuyPrice,
    h.overview, h.dataSource>>

C9_RefreshAddsNoTicker ==
  last.op = "refresh" => TickersOf(last.after) = TickersOf(last.before)

\* the payload a pending refresh p builds from the scraper results rs, and
\* the ledger after applying it once and twice
RefreshOnce(p, rs) ==
  LET data == SuccessfulData(rs, Len(rs))
      u == UpdatedHoldings(store, p.closure, data, Len(data))
      r == addHoldings(u.st, portfolio.holdings, u.out, TRUE)
  IN  [st |-> r.st, out |-> r.out, payload |-> u.out]
RefreshTwice(p, rs) ==
  LET once == RefreshOnce(p, rs)
  IN  addHoldings(once.st, once.out, once.payload, TRUE)

\* C10: applying a refresh payload twice gives the same holdings as applying
\* it once.
C10_RefreshIdempotent ==
  \A p \in pending : \A rs \in ResultsOf(p) :
    LET once == RefreshOnce(p, rs)
        twice == RefreshTwice(p, rs)
    IN  Deep(twice.st.objs, twice.st.arrs, twice.out) =
          Deep(once.st.objs, once.st.arrs, once.out)

\* a refresh is pending whose payload changes the ledger
C10_Witness ==
  \E p \in pending : \E rs \in ResultsOf(p) :
    LET once == RefreshOnce(p, rs)
    IN  /\ Len(once.payload) > 0
        /\ Deep(once.st.objs, once.st.arrs, once.out) # Ledger

\* C11: the tickers of the holdings of the ledger are pairwise distinct.
C11_TickersDistinct ==
  \A i, j \in 1..Len(Ledger) : Ledger[i].ticker = Ledger[j].ticker => i = j

\* a purchase for a ticker that was already held, given in lower case, has
\* been merged into a ledger of two holdings
C11_Witness ==
  /\ last.op = "add"
  /\ Len(last.before) = 2
  /\ Len(Ledger) = 2
  /\ \E i \in 1..Len(last.payload) : last.payload[i].ticker \in TickersOf(last.before)

\* quantity, totalInvestment and averageBuyPrice of a history: BUY adds its
\* quantity and cost, SELL subtracts its quantity, DIVIDEND counts for nothing
Aggregate(txs) ==
  LET q == RSub(TotalOf(txs, "BUY", "quantity"), TotalOf(txs, "SELL", "quantity"))
      c == TotalOf(txs, "BUY", "cost")
  IN  [quantity |-> q, totalInvestment |-> c,
       averageBuyPrice |-> IF RGt(q, R(0)) THEN RDiv(c, q) ELSE R(0)]

\* C12: addHoldings with isRefresh = false gives a holding whose ticker was
\* held the existing transactions followed by the incoming ones, with
\* quantity, totalInvestment and averageBuyPrice aggregated over that whole
\* history, and inserts a holding whose ticker was not held unchanged.
C12_PurchaseMergesHistory ==
  last.op = "add" =>
    \A i \in 1..Len(last.payload) :
      LET new == last.payload[i]
          k == IndexOf(last.before, new.ticker)
          n == IndexOf(last.after, new.ticker)
      IN  /\ n # 0
          /\ IF k = 0
             THEN last.after[n] = new
             ELSE LET txs == last.before[k].transactions \o new.transactions
                      agg == Aggregate(txs)
                  IN  /\ last.after[n].transactions = txs
                      /\ last.after[n].quantity = agg.quantity
                      /\ last.after[n].totalInvestment = agg.totalInvestment
                      /\ last.after[n].averageBuyPrice = agg.averageBuyPrice

\* a purchase has been merged into a history that holds a SELL and a DIVIDEND
C12_Witness ==
  /\ last.op = "add"
  /\ \E i \in 1..Len(last.payload) :
       LET k == IndexOf(last.before, last.payload[i].ticker)
       IN  /\ k # 0
           /\ \E j \in 1..Len(last.before[k].transactions) :
                last.before[k].transactions[j].type = "SELL"
           /\ \E j \in 1..Len(last.before[k].transactions) :
                last.before[k].transactions[j].type = "DIVIDEND"

\* C13: updateHolding on a held ticker leaves that holding with exactly one
\* transaction, a BUY of totalQuantity at averagePrice with cost their
\* product, and with quantity = totalQuantity, averageBuyPrice = averagePrice
\* and totalInvestment = their product; on a ticker that is not held it
\* returns the ledger it was given.
C13_UpdateReplacesHistory ==
  last.op = "update" =>
    IF last.ticker \in TickersOf(last.before)
    THEN /\ last.ticker \in TickersOf(last.after)
         /\ LET h == last.after[IndexOf(last.after, last.ticker)]
            IN  /\ Len(h.transactions) = 1
                /\ h.transactions[1].type = "BUY"
                /\ h.transactions[1].quantity = last.quantity
                /\ h.transactions[1].price = last.price
                /\ h.transactions[1].cost = RMul(last.quantity, last.price)
                /\ h.quantity = last.quantity
                /\ h.averageBuyPrice = last.price
                /\ h.totalInvestment = RMul(last.quantity, last.price)
    ELSE last.after = last.before

\* updateHolding has replaced a history of at least three transactions
C13_Witness ==
  /\ last.op = "update"
  /\ last.ticker \in TickersOf(last.before)
  /\ Len(last.before[IndexOf(last.before, last.ticker)].transactions) >= 3
  /\ Len(last.after[IndexOf(last.after, last.ticker)].transactions) = 1

\* C14: addDividend on a held ticker appends exactly one DIVIDEND transaction
\* with the given amount and date to that holding and leaves quantity,
\* totalInvestment and averageBuyPrice of every holding unchanged; on a
\* ticker that is not held it returns the ledger it was given.
C14_DividendAppendsOnly ==
  last.op = "dividend" =>
    IF last.ticker \in TickersOf(last.before)
    THEN /\ Len(last.after) = Len(last.before)
         /\ \A i \in 1..Len(last.before) :
              LET b == last.before[i]
                  h == last.after[i]
                  n == Len(b.transactions)
              IN  /\ h.ticker = b.ticker
                  /\ h.quantity = b.quantity
                  /\ h.totalInvestment = b.totalInvestment
                  /\ h.averageBuyPrice = b.averageBuyPrice
                  /\ IF i = IndexOf(last.before, last.ticker)
                     THEN /\ Len(h.transactions) = n + 1
                          /\ SubSeq(h.transactions, 1, n) = b.transactions
                          /\ h.transactions[n + 1].type = "DIVIDEND"
                          /\ h.transactions[n + 1].amount = last.quantity
                          /\ h.transactions[n + 1].date = last.date
                     ELSE h.transactions = b.transactions
    ELSE last.after = last.before

\* a dividend has been added to one of two holdings
C14_Witness ==
  /\ last.op = "dividend"
  /\ Len(last.before) = 2
  /\ last.ticker \in TickersOf(last.before)
  /\ Len(last.after[IndexOf(last.after, last.ticker)].transactions) >= 2

\* a line that names a ticker, a quantity that parses as a positive number
\* and a price that parses as a positive number
GoodLine(line) ==
  /\ Len(line) >= 3
  /\ line[1] # ""
  /\ ParseFloat(line[2]) # NaN /\ RGt(ParseFloat(line[2]), R(0))
  /\ ParseFloat(line[3]) # NaN /\ RGt(ParseFloat(line[3]), R(0))
GoodLines(text) == SelectSeq(text, GoodLine)
ParsedValue(text) ==
  LET r == parseBulkAddInput(EmptyStore, text)
  IN  WithoutIds(Deep(r.st.objs, r.st.arrs, r.out))
\* the transactions of a parsed ledger, all holdings together
CountTransactions(ledger) ==
  LET RECURSIVE Count(_)
      Count(i) == IF i = 0 THEN 0 ELSE Count(i - 1) + Len(ledger[i].transactions)
  IN  Count(Len(ledger))

\* C15: parseBulkAddInput skips every line without a ticker or whose
\* quantity or price does not parse as a positive number: it returns what it
\* returns for the text with those lines deleted, one transaction per
\* remaining line, and the empty array when no line remains.
C15_InvalidLinesSkipped ==
  (run.fn = "parseBulkAddInput" /\ run.done) =>
    /\ WithoutIds(run.out) = ParsedValue(GoodLines(run.text))
    /\ CountTransactions(run.out) = Len(GoodLines(run.text))
    /\ GoodLines(run.text) = <<>> => run.out = <<>>

\* a text with a line of negative price between two good lines was parsed
C15_Witness ==
  /\ run.fn = "parseBulkAddInput" /\ run.done
  /\ Len(run.text) = 3
  /\ GoodLine(run.text[1]) /\ GoodLine(run.text[3])
  /\ run.text[2] = <<"MEBL", "100", "-5">>
  /\ Len(run.out) = 2

\* the tickers a ledger may hold: upper case
UpperTickers == {"MEBL", "HBL", "BAD"}
\* the BUY transaction parseBulkAddInput makes of a good line
BuyOf(line) ==
  [id |-> 0, date |-> IF Len(line) >= 4 THEN line[4] ELSE Today, type |-> "BUY",
   quantity |-> ParseFloat(line[2]), price |-> ParseFloat(line[3]),
   cost |-> RMul(ParseFloat(line[2]), ParseFloat(line[3]))]
\* the good lines of a text whose ticker is t whatever its letter case
LinesOf(text, t) ==
  SelectSeq(GoodLines(text), LAMBDA line : line[1] \in {t, "mebl"} /\ (line[1] = "mebl" => t = "MEBL"))

\* C16: parseBulkAddInput returns one holding per distinct upper-cased
\* ticker of the good lines, holding one BUY per good line of that ticker in
\* input order, with quantity the sum of the quantities, totalInvestment the
\* sum of quantity x price and averageBuyPrice their quotient.
C16_GroupedByUpperTicker ==
  (run.fn = "parseBulkAddInput" /\ run.done) =>
    LET out == WithoutIds(run.out)
    IN  /\ \A i, j \in 1..Len(out) : out[i].ticker = out[j].ticker => i = j
        /\ TickersOf(out) = {t \in UpperTickers : LinesOf(run.text, t) # <<>>}
        /\ \A i \in 1..Len(out) :
             LET lines == LinesOf(run.text, out[i].ticker)
                 txs == [k \in 1..Len(lines) |-> BuyOf(lines[k])]
             IN  /\ out[i].transactions = txs
                 /\ out[i].quantity = TotalOf(txs, "BUY", "quantity")
                 /\ out[i].totalInvestment = TotalOf(txs, "BUY", "cost")
                 /\ out[i].averageBuyPrice =
                      RDiv(out[i].totalInvestment, out[i].quantity)

\* lines "MEBL ..." and "mebl ..." were parsed into one holding of two BUYs
C16_Witness ==
  /\ run.fn = "parseBulkAddInput" /\ run.done
  /\ run.text = << <<"MEBL", "100", "150", "2024-01-01">>, <<"HBL", "60", "150">>,
                   <<"mebl", "40", "200">> >>
  /\ Len(run.out) = 2
  /\ Len(run.out[1].transactions) = 2

\* the sum of f over the holdings of a ledger
RECURSIVE SumOver(_, _)
SumOver(values, i) ==
  IF i = 0 THEN R(0) ELSE RAdd(SumOver(values, i - 1), values[i])
MetricsDone == run.fn = "calculatePortfolioMetrics" /\ run.done
\* the overrides the service is handed
Overrides == numericManualPrices(run.manualPrices)
\* override x quantity when the ticker has an override, else currentPrice x
\* quantity when the holding has a live price, else totalInvestment
ValueByPrecedence(h) ==
  IF h.ticker \in DOMAIN Overrides THEN RMul(Overrides[h.ticker], h.quantity)
  ELSE IF h.currentPrice # NoNum THEN RMul(h.currentPrice, h.quantity)
  ELSE h.totalInvestment

\* C17: calculatePortfolioMetrics values each holding at override x
\* quantity when its ticker has a manual override, else at currentPrice x
\* quantity when it has a live price, else at its totalInvestment, and
\* currentValue is the sum of these values.
C17_ValuedByOverrideThenLivePrice ==
  MetricsDone =>
    run.out.currentValue =
      SumOver([i \in 1..Len(run.holdings) |-> ValueByPrecedence(run.holdings[i])],
              Len(run.holdings))

\* C18: in the figures of calculatePortfolioMetrics, totalDividends is the
\* sum of the amounts of all DIVIDEND transactions of all holdings,
\* totalInvestment the sum of the holdings' totalInvestment, and
\* totalGainLoss = (currentValue - totalInvestment) + totalDividends.
C18_GainIncludesDividends ==
  MetricsDone =>
    LET l == run.holdings
    IN  /\ run.out.totalDividends =
             SumOver([i \in 1..Len(l) |->
                        TotalOf(l[i].transactions, "DIVIDEND", "amount")], Len(l))
        /\ run.out.totalInvestment =
             SumOver([i \in 1..Len(l) |-> l[i].totalInvestment], Len(l))
        /\ run.out.totalGainLoss =
             RAdd(RSub(run.out.currentValue, run.out.totalInvestment),
                  run.out.totalDividends)

\* the figures of a two-holding ledger with a dividend of 5 and a live price
C18_Witness ==
  /\ MetricsDone
  /\ Len(run.holdings) = 2
  /\ run.out.totalDividends = R(5)
  /\ run.out.totalInvestment = R(24000)
  /\ run.out.currentValue = R(32000)
  /\ run.out.totalGainLoss = R(8005)

\* C19: calculatePortfolioMetrics never divides by a base that is not
\* positive: totalGainLossPercent is 0 when the summed totalInvestment is 0
\* (the empty ledger included) and totalGainLoss / totalInvestment x 100
\* otherwise; dayGainLossPercent is 0 when currentValue - dayGainLoss <= 0
\* and dayGainLoss / (currentValue - dayGainLoss) x 100 otherwise.
C19_PercentagesGuarded ==
  MetricsDone =>
    LET out == run.out
        yesterday == RSub(out.currentValue, out.dayGainLoss)
    IN  /\ out.totalGainLossPercent =
             IF out.totalInvestment = R(0) THEN R(0)
             ELSE RMul(RDiv(out.totalGainLoss, out.totalInvestment), R(100))
        /\ out.dayGainLossPercent =
             IF RLeq(yesterday, R(0)) THEN R(0)
             ELSE RMul(RDiv(out.dayGainLoss, yesterday), R(100))

\* a negative override cancels the value the day change is measured on:
\* the day percentage stays 0 while the total percentage is computed
C19_WitnessNegativeBase ==
  /\ MetricsDone
  /\ RLt(RSub(run.out.currentValue, run.out.dayGainLoss), R(0))
  /\ run.out.dayGainLoss # R(0)
  /\ run.out.dayGainLossPercent = R(0)
  /\ run.out.totalGainLossPercent # R(0)
\* the empty ledger: every figure is 0
C19_WitnessEmpty ==
  /\ MetricsDone
  /\ run.holdings = <<>>
  /\ run.out = ZeroMetrics
\* one holding updated to quantity 0 and priced at 200: nothing invested,
\* nothing to measure the day change on, both percentages 0
C19_Witness ==
  /\ MetricsDone
  /\ Len(run.holdings) = 1
  /\ run.holdings[1].quantity = R(0)
  /\ run.holdings[1].currentPrice = R(200)
  /\ run.holdings[1].dayChangeValue = R(-5)
  /\ run.out.totalInvestment = R(0)
  /\ run.out.totalGainLossPercent = R(0)
  /\ run.out.dayGainLossPercent = R(0)

AllocationDone == run.fn = "calculateSectorAllocation" /\ run.done
\* the price the allocation values a holding at: override, else live price,
\* else average buy price
EffectivePrice(h) ==
  IF h.ticker \in DOMAIN Overrides THEN Overrides[h.ticker]
  ELSE IF h.currentPrice # NoNum THEN h.currentPrice
  ELSE h.averageBuyPrice
\* the total allocation value of the ledger of the run
TotalAllocationValue ==
  SumOver([i \in 1..Len(run.holdings) |->
             RMul(EffectivePrice(run.holdings[i]), run.holdings[i].quantity)],
          Len(run.holdings))
\* the places <<entry, position>> of the result that list ticker t
PlacesOf(t) ==
  {<<e, k>> \in (1..Len(run.out)) \X (1..Len(run.holdings)) :
     k <= Len(run.out[e].holdings) /\ run.out[e].holdings[k].ticker = t}

\* C20: when the total allocation value of the ledger is not 0, the
\* percentages calculateSectorAllocation returns sum to 100, and every
\* holding is listed in exactly one entry: the one named after its sector,
\* or "Uncategorized" when it has none.
C20_AllocationCoversLedger ==
  (AllocationDone /\ TotalAllocationValue # R(0)) =>
    /\ SumOver([e \in 1..Len(run.out) |-> run.out[e].percentage],
               Len(run.out)) = R(100)
    /\ \A i \in 1..Len(run.holdings) :
         LET h == run.holdings[i]
         IN  /\ Cardinality(PlacesOf(h.ticker)) = 1
             /\ \A pl \in PlacesOf(h.ticker) :
                  run.out[pl[1]].name =
                    IF h.sector \in {Undef, ""} THEN "Uncategorized" ELSE h.sector

\* a banking holding and one without sector, split 5/8 to 3/8
C20_Witness ==
  /\ AllocationDone
  /\ Len(run.holdings) = 2
  /\ run.holdings[1].sector = "Banking"
  /\ run.holdings[2].sector = Undef
  /\ Len(run.out) = 2
  /\ run.out[1].name = "Banking" /\ run.out[1].percentage = Norm(125, 2)
  /\ run.out[2].name = "Uncategorized" /\ run.out[2].percentage = Norm(75, 2)

\* the value of the holdings of the run's ledger that fall into sector name
SectorValue(name) ==
  SumOver([i \in 1..Len(run.holdings) |->
             IF (IF run.holdings[i].sector \in {Undef, ""} THEN "Uncategorized"
                 ELSE run.holdings[i].sector) = name
             THEN RMul(EffectivePrice(run.holdings[i]), run.holdings[i].quantity)
             ELSE R(0)],
          Len(run.holdings))

\* C21: calculateSectorAllocation returns the empty sequence when the total
\* value is 0 (the empty ledger included); otherwise its entries come in
\* non-increasing order of percentage and each percentage is
\* sector value / total value x 100.
C21_AllocationOrdered ==
  AllocationDone =>
    IF TotalAllocationValue = R(0) THEN run.out = <<>>
    ELSE /\ run.out # <<>>
         /\ \A e \in 1..(Len(run.out) - 1) :
              RLeq(run.out[e + 1].percentage, run.out[e].percentage)
         /\ \A e \in 1..Len(run.out) :
              run.out[e].percentage =
                RMul(RDiv(SectorValue(run.out[e].name), TotalAllocationValue), R(100))

\* the second holding's sector carries all the value and comes first
C21_Witness ==
  /\ AllocationDone
  /\ Len(run.holdings) = 2
  /\ run.holdings[1].sector = "Cement"
  /\ run.holdings[2].sector = "Banking"
  /\ Len(run.out) = 2
  /\ run.out[1].name = "Banking" /\ run.out[1].percentage = R(100)
  /\ run.out[2].name = "Cement" /\ run.out[2].percentage = R(0)
\* a ledger that is not empty and is worth 0: no entry
C21_WitnessZero ==
  /\ AllocationDone
  /\ run.holdings # <<>>
  /\ run.out = <<>>

\* the override texts of the run that parse as a positive number, as numbers
PositiveOverrides ==
  [t \in {k \in DOMAIN run.manualPrices :
             /\ ParseFloat(run.manualPrices[k]) # NaN
             /\ RGt(ParseFloat(run.manualPrices[k]), R(0))} |->
     ParseFloat(run.manualPrices[t])]

\* C24: an override text that is not a number, is zero or is negative has
\* no effect: calculatePortfolioMetrics and calculateSectorAllocation give
\* the figures they give when that ticker has no override at all.
C24_OnlyPositiveOverridesCount ==
  /\ MetricsDone =>
       run.out = calculatePortfolioMetrics(run.holdings, PositiveOverrides)
  /\ AllocationDone =>
       run.out = calculateSectorAllocation(run.holdings, PositiveOverrides)

SnapshotCalled == run.fn = "addPortfolioSnapshot" /\ run.called
\* the days that have an entry in a history
DaysOf(history) == {history[i].date[1] : i \in 1..Len(history)}

\* C22: after calls of addPortfolioSnapshot at non-decreasing instants from
\* the empty history, the history has at most one entry per calendar day: a
\* call on a day that has an entry replaces that entry (same length, the
\* new value), and a call on a later day appends one entry.
C22_OneSnapshotPerDay ==
  (run.fn = "addPortfolioSnapshot" /\ run.start = <<>>) =>
    LET after == portfolio.history
        before == run.before
        today == run.now[1]
        snapshot == [date |-> run.now, value |-> run.value]
    IN  /\ \A i, j \in 1..Len(after) : after[i].date[1] = after[j].date[1] => i = j
        /\ run.called =>
             IF today \in DaysOf(before)
             THEN /\ Len(after) = Len(before)
                  /\ \A i \in 1..Len(before) :
                       after[i] = IF before[i].date[1] = today THEN snapshot
                                  ELSE before[i]
             ELSE after = Append(before, snapshot)

\* day 1 was recorded at 100, then again at 150, and day 2 was appended
C22_Witness ==
  /\ SnapshotCalled
  /\ run.start = <<>>
  /\ Len(portfolio.history) = 2
  /\ portfolio.history[1] = [date |-> <<1, 1>>, value |-> R(150)]
  /\ portfolio.history[2].date[1] = 2

\* C23: from a history of at most 365 entries, the history never grows
\* beyond 365 entries; an append to a history of 365 drops exactly its oldest
\* entry and keeps the others in their order.
C23_HistoryCapped ==
  run.fn = "addPortfolioSnapshot" =>
    /\ Len(portfolio.history) <= 365
    /\ (run.called /\ Len(run.before) = 365 /\ run.now[1] \notin DaysOf(run.before)) =>
         portfolio.history =
           Append(Tail(run.before), [date |-> run.now, value |-> run.value])

\* a full history took one more day: its first entry went, the new one is last
C23_Witness ==
  /\ SnapshotCalled
  /\ Len(run.before) = 365
  /\ Len(portfolio.history) = 365
  /\ portfolio.history[1] = run.before[2]
  /\ portfolio.history[365].date = run.now
  /\ run.before[365].date[1] < run.now[1]

Loaded == run.fn = "getInitialState" /\ run.done
\* the stored item is an object whose holdings are an array
Usable(item) == item.kind = "text" /\ item.parses /\ item.isObject /\ item.holdings.isArray

\* C25 (what is loaded from an item): a usable item without an array-shaped
\* history loads with history = <<>>; an absent, unparsable or unusable
\* item loads as the empty portfolio.
C25_LoadTolerant ==
  Loaded =>
    /\ (Usable(run.stored) /\ ~run.stored.history.isArray) =>
         /\ run.out.history = <<>>
         /\ run.out.holdings = run.stored.holdings.items
         /\ run.out.lastRefreshed = run.stored.lastRefreshed
    /\ ~Usable(run.stored) => run.out = EmptyPortfolio

\* C25: loading the persisted portfolio is tolerant as above, and a save
\* followed by a load is the identity: the portfolio loaded is the
\* portfolio that was saved.
C25_SaveLoadIdentity ==
  /\ C25_LoadTolerant
  /\ (Loaded /\ run.saved) => run.out = run.memory

\* a scraper refresh has just settled
RefreshSettled == last.op \in {"refresh", "refreshed nothing"}
\* the request was rejected, or the price it brought is not a number
ScrapeFailed(result) ==
  result.status = "rejected" \/ ParseFloat(result.value.price) = NaN

\* C26: when a scraper refresh settles, every ticker whose request was
\* rejected or brought a price that is not a number is in the failed list
\* and its holding is exactly as before the refresh; every other ticker of
\* the refresh has a holding carrying the price and day change it brought.
C26_FailedTickersUntouched ==
  RefreshSettled =>
    \A i \in 1..Len(last.tickers) :
      LET t == last.tickers[i]
          result == last.results[i]
      IN  IF ScrapeFailed(result)
          THEN /\ \E k \in 1..Len(scrapeFailedTickers) : scrapeFailedTickers[k] = t
               /\ \A k \in 1..Len(last.before) :
                    last.before[k].ticker = t => last.after[k] = last.before[k]
          ELSE /\ \A k \in 1..Len(scrapeFailedTickers) : scrapeFailedTickers[k] # t
               /\ \E k \in 1..Len(last.after) :
                    /\ last.after[k].ticker = t
                    /\ last.after[k].currentPrice = ParseFloat(result.value.price)
                    /\ last.after[k].dayChangeValue = ParseFloat(result.value.change)

\* a refresh of two holdings: MEBL brought a price that is no number and
\* stays as it was, HBL was priced
C26_Witness ==
  /\ last.op = "refresh"
  /\ last.tickers = <<"MEBL", "HBL">>
  /\ last.results[1].status = "fulfilled" /\ last.results[1].value.price = "abc"
  /\ scrapeFailedTickers = <<"MEBL">>
  /\ last.after[1] = last.before[1]
  /\ last.before[2].currentPrice = NoNum
  /\ last.after[2].currentPrice = R(200)

\* the ledger fields a price refresh has no business with
Position(h) ==
  <<h.ticker, h.transactions, h.quantity, h.totalInvestment, h.averageBuyPrice>>

\* C27: a refresh that resolves after other ledger calls is applied to the
\* latest ledger: the ledger after it has the tickers, transactions,
\* quantity and investment fields of the ledger just before it, so a holding
\* sold out or cleared while the refresh was in flight does not come back.
C27_RefreshAppliesToLatestLedger ==
  last.op = "refresh" =>
    /\ Len(last.after) = Len(last.before)
    /\ \A i \in 1..Len(last.after) :
         Position(last.after[i]) = Position(last.before[i])

\* C28: no ledger keeps a holding at zero quantity: after any purchases,
\* sells, dividends and manual corrections the forms accept, every holding
\* has a quantity above 0.0001.
C28_NoEmptyHolding ==
  \A i \in 1..Len(Ledger) : RGt(Ledger[i].quantity, Norm(1, 10000))

\* no override is typed
NoOverrides == <<>>

\* C29: in every reachable ledger the two valuations agree on a holding
\* that has no live price and no override: averageBuyPrice x quantity (the
\* allocation) equals totalInvestment (the metrics); so, with no override
\* typed, the sector values add up to the currentValue of the metrics.
C29_ValuationsAgree ==
  /\ \A i \in 1..Len(Ledger) :
       Ledger[i].currentPrice = NoNum =>
         /\ AllocationValue(Ledger[i], NoOverrides) = HoldingValue(Ledger[i], NoOverrides)
         /\ RMul(Ledger[i].averageBuyPrice, Ledger[i].quantity)
              = Ledger[i].totalInvestment
  /\ TotalValue(Ledger, NoOverrides, Len(Ledger))
       = calculatePortfolioMetrics(Ledger, NoOverrides).currentValue

EffectRuns == run.fn = "snapshotEffect"
\* the last entry of the history is dated today
LastEntryToday ==
  /\ Len(portfolio.history) > 0
  /\ portfolio.history[Len(portfolio.history)].date[1] = run.now[1]

\* C30 (as stated): the effect calls addPortfolioSnapshot at most once per
\* calendar day; after a call the last entry is dated today; while
\* lastRefreshed is unset no snapshot is recorded.
C30_OneCallPerDay ==
  EffectRuns =>
    /\ run.callsToday <= 1
    /\ run.called => LastEntryToday
    /\ portfolio.lastRefreshed = Undef => portfolio.history = <<>>

\* C30 (amended): between two clearPortfolio calls the effect calls
\* addPortfolioSnapshot at most once per calendar day; after a call the last
\* entry is dated today and the history has one entry per day; while
\* lastRefreshed is unset no snapshot is recorded.
C30_EffectSettles ==
  EffectRuns =>
    /\ run.callsSinceClear <= 1
    /\ run.called => LastEntryToday
    /\ \A i, j \in 1..Len(portfolio.history) :
         portfolio.history[i].date[1] = portfolio.history[j].date[1] => i = j
    /\ portfolio.lastRefreshed = Undef => portfolio.history = <<>>

\* the effect has recorded the second day of a refreshed portfolio
C30_Witness ==
  /\ EffectRuns
  /\ run.called
  /\ run.callsSinceClear = 1
  /\ Len(portfolio.history) = 2
  /\ LastEntryToday

====
